---- MODULE Spec2Model ----
(***************************************************************************)
(* A model of the kontrolle authorization engine:                          *)
(*   - the naming codec         (src/src/lib/helpers.ts)                   *)
(*   - the Permission entity    (src/src/lib/permission.ts)                *)
(*   - the RBAC index and query (src/src/lib/index.ts, lines 1-291)        *)
(*   - the ACL rule registry    (src/src/lib/acl.ts)                       *)
(*                                                                         *)
(* JavaScript strings are sequences of one-character strings, so that      *)
(* indexOf, substring and String.prototype.includes are computed, and a    *)
(* JavaScript value is a record tagged with its typeof.  A call's outcome  *)
(* is either Return(value) or Throw(message).                              *)
(***************************************************************************)
EXTENDS Integers, Sequences, FiniteSets, TLC

VARIABLES
    initOptions,  \* index.ts: let initOptions (its delimiter, the one field read after init)
    data,         \* index.ts: let data
    user,         \* acl.ts: _ACL.user
    rulesMap,     \* acl.ts: _ACL.rulesMap (own properties only)
    call,         \* the last operation called, with its arguments
    result,       \* the outcome of the last operation
    duplicates,   \* the rules the last defineACL reported as already existing
    firstReg,     \* history: rule name -> requirement of its first applyRule
    firstUser     \* history: rule name -> user of the defineACL of that applyRule

vars == <<initOptions, data, user, rulesMap, call, result, duplicates, firstReg,
          firstUser>>

----------------------------------------------------------------------------
(* Bounds of the model *)

\* longest group / resource string, in characters
MaxLen == 2
\* longest list of rule names passed to a quorum call
MaxRules == 2
\* longest `permissions` list of a rules config
MaxEntries == 2
\* longest `permissions` array given to init
MaxGroups == 2
\* the longest list of queries given to canAny and canAll
MaxQueries == 2
\* the longest list of actions given to canActions
MaxActions == 2
\* the longest list of feature groups given to the bitmask createFeatures
MaxFeatures == 3

----------------------------------------------------------------------------
(* JavaScript values and outcomes *)

Str(s) == [t |-> "string", s |-> s]
Bool(b) == [t |-> "boolean", b |-> b]
Num(n) == [t |-> "number", n |-> n]
Arr(a) == [t |-> "array", a |-> a]
Undefined == [t |-> "undefined"]
Null == [t |-> "null"]

Return(v) == [kind |-> "return", value |-> v]
Throw(m) == [kind |-> "throw", message |-> m]

\* ToBoolean, as used by `!x` and `if (x)`
Truthy(v) ==
    CASE v.t = "undefined" -> FALSE
      [] v.t = "null" -> FALSE
      [] v.t = "boolean" -> v.b
      [] v.t = "number" -> v.n # 0
      [] v.t = "string" -> v.s # <<>>
      [] OTHER -> TRUE

\* every sequence over S of length at most n
SeqsUpTo(S, n) == UNION {[1..k -> S] : k \in 0..n}

\* String.prototype.indexOf: the first position (0-based) where needle
\* occurs in hay, -1 when it does not occur
IndexOf(hay, needle) ==
    LET starts == {i \in 0..(Len(hay) - Len(needle)) :
                      SubSeq(hay, i + 1, i + Len(needle)) = needle}
    IN IF starts = {} THEN -1
       ELSE CHOOSE i \in starts : \A j \in starts : i <= j

\* String.prototype.substring(from, to) with 0 <= from <= to
Substring(s, from, to) ==
    LET f == IF from > Len(s) THEN Len(s) ELSE from
        e == IF to > Len(s) THEN Len(s) ELSE to
    IN SubSeq(s, f + 1, e)

\* String.prototype.substring(from): the rest of s from position `from`
SubstringFrom(s, from) == Substring(s, from, Len(s))

\* String.prototype.includes: needle occurs somewhere in hay
StringIncludes(hay, needle) == IndexOf(hay, needle) # -1

\* Array.prototype.includes: some element of arr is the value x
ArrayIncludes(arr, x) == \E i \in 1..Len(arr) : arr[i] = x

----------------------------------------------------------------------------
(* helpers.ts: the naming codec *)

\* createName with the two parts in the other order
createNameResourceFirst(group, resource, delimiter) ==
    IF ~Truthy(delimiter) THEN Throw("Delimiter is not defined")
    ELSE IF ~Truthy(group) THEN Throw("Action is not defined")
    ELSE IF ~Truthy(resource) THEN Throw("Resource is not defined")
    ELSE Return(Str(resource.s \o delimiter.s \o group.s))

createName(group, resource, delimiter) ==
    IF ~Truthy(delimiter) THEN Throw("Delimiter is not defined")
    ELSE IF ~Truthy(group) THEN Throw("Action is not defined")
    ELSE IF ~Truthy(resource) THEN Throw("Resource is not defined")
    ELSE Return(Str(group.s \o delimiter.s \o resource.s))

decodeName(name, delimiter) ==
    IF ~Truthy(delimiter) THEN Throw("Delimiter is required")
    ELSE IF ~Truthy(name) THEN Throw("Name is required")
    ELSE LET pos == IndexOf(name.s, delimiter.s)
         IN IF pos = -1 THEN Throw("Wrong name")
            ELSE Return([action |-> Str(Substring(name.s, 0, pos)),
                         resource |-> Str(SubstringFrom(name.s, pos + 1))])

----------------------------------------------------------------------------
(* permission.ts: the Permission entity *)

\* Permission(group, resource, action, version = '', delimiter);
\* `action` is a string or an array of strings, copied when an array
Permission(group, resource, action, version, delimiter) ==
    LET name == createName(group, resource, delimiter)
    IN IF name.kind = "throw" THEN name
       ELSE Return([name |-> name.value,
                    group |-> group,
                    resource |-> resource,
                    action |-> action,
                    version |-> IF version = Undefined THEN Str(<<>>) ELSE version])

\* _action.includes(action): Array.prototype.includes for an array,
\* String.prototype.includes for a string
ActionIncludes(held, action) ==
    IF held.t = "array" THEN ArrayIncludes(held.a, action)
    ELSE StringIncludes(held.s, action.s)

\* Permission.can
PermissionCan(p, group, resource, action) ==
    /\ p.group = group
    /\ p.resource = resource
    /\ ActionIncludes(p.action, action)

\* Permission.canActions
RECURSIVE CountIncluded(_, _)
CountIncluded(held, actions) ==
    IF actions = <<>> THEN 0
    ELSE (IF ActionIncludes(held, Head(actions)) THEN 1 ELSE 0)
         + CountIncluded(held, Tail(actions))

PermissionCanActions(p, actions) == CountIncluded(p.action, actions)

----------------------------------------------------------------------------
(* acl.ts: the rule registry and the quorum checkers *)

Fn(f) == [t |-> "function", f |-> f]
Obj(id, isAdmin) == [t |-> "object", id |-> id, isAdmin |-> isAdmin]

\* the text "[object Undefined]"
ObjectUndefinedTag ==
    <<"[", "o", "b", "j", "e", "c", "t", " ",
      "U", "n", "d", "e", "f", "i", "n", "e", "d", "]">>

\* What a requirement does when called as callback(user, ...args):
\*   isAdmin  (user) => user.isAdmin
\*   isOwner  (user, certificate) => user.id === certificate.ownerId
\* and the two functions every plain object inherits that the model names,
\* called with `this` undefined (module code is strict).
Apply(f, u, args) ==
    CASE f = "isAdmin" ->
           IF u.t # "object" THEN Throw("TypeError")
           ELSE Return(Bool(u.isAdmin))
      [] f = "isOwner" ->
           IF u.t # "object" \/ args = <<>> THEN Throw("TypeError")
           ELSE Return(Bool(u.id = args[1].ownerId))
      [] f = "Object.prototype.toString" -> Return(Str(ObjectUndefinedTag))
      [] f = "Object.prototype.valueOf" -> Throw("TypeError")

\* _ACL.rulesMap is the object literal {}: besides its own properties it
\* has those of Object.prototype
ObjectPrototype ==
    ("toString" :> Fn("Object.prototype.toString"))
    @@ ("valueOf" :> Fn("Object.prototype.valueOf"))

EmptyMap == [n \in {} |-> Undefined]

\* rule in map
In(rule, map) == rule \in DOMAIN map \/ rule \in DOMAIN ObjectPrototype

\* map[rule]
Get(map, rule) ==
    IF rule \in DOMAIN map THEN map[rule]
    ELSE IF rule \in DOMAIN ObjectPrototype THEN ObjectPrototype[rule]
    ELSE Undefined

\* map[rule] = value
Put(map, rule, value) ==
    [n \in DOMAIN map \cup {rule} |-> IF n = rule THEN value ELSE map[n]]

\* v[i] for a truthy value v
Index(v, i) ==
    CASE v.t = "array" -> IF i < Len(v.a) THEN v.a[i + 1] ELSE Undefined
      [] v.t = "string" -> IF i < Len(v.s) THEN Str(<<v.s[i + 1]>>) ELSE Undefined
      [] OTHER -> Undefined

\* the UTF-16 code of the characters of ObjectUndefinedTag
CharCode(c) ==
    CASE c = " " -> 32
      [] c = "U" -> 85
      [] c = "[" -> 91
      [] c = "]" -> 93
      [] c = "b" -> 98
      [] c = "c" -> 99
      [] c = "d" -> 100
      [] c = "e" -> 101
      [] c = "f" -> 102
      [] c = "i" -> 105
      [] c = "j" -> 106
      [] c = "n" -> 110
      [] c = "o" -> 111
      [] c = "t" -> 116

\* a < b: numbers by value, one-character strings by code; a comparison
\* with undefined is false
Less(a, b) ==
    CASE a.t = "number" /\ b.t = "number" -> a.n < b.n
      [] a.t = "string" /\ b.t = "string" ->
           CharCode(a.s[1]) < CharCode(b.s[1])
      [] OTHER -> FALSE

evaluateRuleCallback(callback, args) ==
    IF callback.t # "function" THEN Bool(FALSE)
    ELSE LET o == Apply(callback.f, user, args)
         IN IF o.kind = "throw" THEN Bool(FALSE) ELSE o.value

\* the forEach of ruleChecker: [counter, valid] after the rules of the list
RECURSIVE CountRules(_, _, _, _)
CountRules(rules, args, counter, valid) ==
    IF rules = <<>> THEN Arr(<<Num(counter), Num(valid)>>)
    ELSE LET rule == Head(rules)
         IN IF ~In(rule, rulesMap)
            THEN CountRules(Tail(rules), args, counter, valid)
            ELSE LET res == evaluateRuleCallback(Get(rulesMap, rule), args)
                 IN CountRules(Tail(rules), args, counter + 1,
                               IF Truthy(res) THEN valid + 1 ELSE valid)

\* ruleChecker calling the predicate of a single rule with the user of the
\* defineACL that registered the rule
ruleCheckerUserAtRegistration(rules, args) ==
    IF rules.t = "string"
    THEN IF ~In(rules.rule, rulesMap) THEN Bool(FALSE)
         ELSE LET callback == Get(rulesMap, rules.rule)
                  subject == IF rules.rule \in DOMAIN firstUser
                             THEN firstUser[rules.rule] ELSE user
                  o == Apply(callback.f, subject, args)
              IN IF callback.t # "function" THEN Bool(FALSE)
                 ELSE IF o.kind = "throw" THEN Bool(FALSE) ELSE o.value
    ELSE IF rules.t = "array" THEN CountRules(rules.rules, args, 0, 0)
    ELSE Bool(FALSE)

ruleChecker(rules, args) ==
    IF rules.t = "string"
    THEN IF ~In(rules.rule, rulesMap) THEN Bool(FALSE)
         ELSE evaluateRuleCallback(Get(rulesMap, rules.rule), args)
    ELSE IF rules.t = "array" THEN CountRules(rules.rules, args, 0, 0)
    ELSE Bool(FALSE)

canRuleChecker(rules, args) ==
    LET res == ruleChecker(rules, args)
    IN IF ~Truthy(res) THEN Bool(FALSE)
       ELSE Bool(Index(res, 0) = Index(res, 1))

canAnyRuleChecker(rules, args) ==
    LET res == ruleChecker(rules, args)
    IN IF ~Truthy(res) THEN Bool(FALSE) ELSE Index(res, 1)

notRuleChecker(rules, args) ==
    LET res == ruleChecker(rules, args)
    IN IF ~Truthy(res) THEN Bool(FALSE)
       ELSE Bool(Index(res, 1) = Num(0))

notAnyRuleChecker(rules, args) ==
    LET res == ruleChecker(rules, args)
    IN IF ~Truthy(res) THEN Bool(FALSE)
       ELSE Bool(Less(Index(res, 1), Index(res, 0)))

\* The registry while a rules config is parsed: the map, and the rules
\* reported as already existing
applyRule(st, rule, requirement) ==
    IF Truthy(Get(st.map, rule))
    THEN [st EXCEPT !.dups = Append(@, rule)]
    ELSE [st EXCEPT !.map = Put(@, rule, requirement)]

RECURSIVE ApplyEach(_, _, _)
ApplyEach(st, rules, requirement) ==
    IF rules = <<>> THEN st
    ELSE ApplyEach(applyRule(st, Head(rules), requirement),
                   Tail(rules), requirement)

applyRules(st, rules, requirement) ==
    IF rules.t = "array" THEN ApplyEach(st, rules.rules, requirement)
    ELSE IF rules.t = "string" THEN applyRule(st, rules.rule, requirement)
    ELSE st

RECURSIVE ApplyEntries(_, _)
ApplyEntries(st, entries) ==
    IF entries = <<>> THEN st
    ELSE ApplyEntries(applyRules(st, Head(entries).rules,
                                 Head(entries).requirement),
                      Tail(entries))

parseRules(map, rules) ==
    LET afterPermissions ==
            ApplyEntries([map |-> map, dups |-> <<>>], rules.permissions)
    IN IF rules.roles.t = "array"
       THEN ApplyEntries(afterPermissions, rules.roles.a)
       ELSE afterPermissions

----------------------------------------------------------------------------
(* index.ts, lines 1-291: the RBAC index *)

\* a field the caller left out of an object
Absent == [t |-> "absent"]

\* a plain object: its own properties, in insertion order
ObjOf(props) == [t |-> "object", props |-> props]
Prop(k, v) == [k |-> k, v |-> v]

\* obj[k] over a list of own properties
RECURSIVE PropGet(_, _)
PropGet(props, k) ==
    IF props = <<>> THEN Undefined
    ELSE IF Head(props).k = k THEN Head(props).v
    ELSE PropGet(Tail(props), k)

\* obj[k] = v: an existing property keeps its place, a new one goes last
PropPut(props, k, v) ==
    IF \E i \in 1..Len(props) : props[i].k = k
    THEN [i \in 1..Len(props) |-> IF props[i].k = k THEN Prop(k, v) ELSE props[i]]
    ELSE Append(props, Prop(k, v))

\* for (key in value) with the hasOwnProperty check: the own properties of
\* an object, the elements of an array under their indices
OwnProps(value) ==
    CASE value.t = "object" -> value.props
      [] value.t = "array" -> [i \in 1..Len(value.a) |-> Prop(i - 1, value.a[i])]
      [] OTHER -> <<>>

DEFAULT_OPTIONS ==
    [permissions |-> Arr(<<>>), roles |-> ObjOf(<<>>),
     features |-> Arr(<<>>), delimiter |-> Str(<<":">>)]

\* { ...DEFAULT_OPTIONS, ...options }
MergeOptions(options) ==
    [f \in DOMAIN DEFAULT_OPTIONS |->
        IF options[f] = Absent THEN DEFAULT_OPTIONS[f] ELSE options[f]]

isEmptyArray(array) == array.t = "array" /\ Len(array.a) = 0

\* new Role(name): the role object { name }
Role(name) == [t |-> "object", name |-> name]

createRole(name) == Role(name)

RECURSIVE CreateRolesFrom(_, _)
CreateRolesFrom(props, roles) ==
    IF props = <<>> THEN roles
    ELSE LET parsedRole == createRole(Head(props).v)
         IN CreateRolesFrom(Tail(props), PropPut(roles, parsedRole.name, parsedRole))

createRoles(rolesData) == ObjOf(CreateRolesFrom(OwnProps(rolesData), <<>>))

createPermission(group, resource, permission, delimiter) ==
    Permission(group, resource, permission.action, permission.version, delimiter)

\* rawPermission[name] && rawPermission[name].action === rawPermission.action
SkipsPermission(rawPermission, name) ==
    LET nested == PropGet(rawPermission.props, name)
    IN Truthy(nested) /\ nested.action = rawPermission.action

\* the loop over one permissionsList: Return(permissions) or the Throw of
\* the first permission that cannot be built
RECURSIVE CreateFromList(_, _, _, _)
CreateFromList(group, list, permissions, delimiter) ==
    IF list = <<>> THEN Return(permissions)
    ELSE LET rawPermission == Head(list).v
             parsed == createPermission(group, Head(list).k, rawPermission, delimiter)
         IN IF parsed.kind = "throw" THEN parsed
            ELSE IF SkipsPermission(rawPermission, parsed.value.name)
            THEN CreateFromList(group, Tail(list), permissions, delimiter)
            ELSE CreateFromList(group, Tail(list),
                                PropPut(permissions, parsed.value.name, parsed.value),
                                delimiter)

\* the loop over the groups of one permissionGroup
RECURSIVE CreateFromGroup(_, _, _)
CreateFromGroup(groups, permissions, delimiter) ==
    IF groups = <<>> THEN Return(permissions)
    ELSE LET done == CreateFromList(Head(groups).k, OwnProps(Head(groups).v),
                                    permissions, delimiter)
         IN IF done.kind = "throw" THEN done
            ELSE CreateFromGroup(Tail(groups), done.value, delimiter)

\* permissionsData.forEach
RECURSIVE CreateFromData(_, _, _)
CreateFromData(permissionsData, permissions, delimiter) ==
    IF permissionsData = <<>> THEN Return(permissions)
    ELSE LET done == CreateFromGroup(OwnProps(Head(permissionsData)),
                                     permissions, delimiter)
         IN IF done.kind = "throw" THEN done
            ELSE CreateFromData(Tail(permissionsData), done.value, delimiter)

\* only an array has forEach
createPermissions(permissionsData, delimiter) ==
    IF permissionsData.t # "array" THEN Throw("TypeError")
    ELSE LET done == CreateFromData(permissionsData.a, <<>>, delimiter)
         IN IF done.kind = "throw" THEN done ELSE Return(ObjOf(done.value))

\* feature.forEach(resource => push(`${group}:${resource}`))
RECURSIVE FeatureNames(_, _)
FeatureNames(group, resources) ==
    IF resources = <<>> THEN <<>>
    ELSE <<Str(group.s \o <<":">> \o Head(resources).s)>>
         \o FeatureNames(group, Tail(resources))

RECURSIVE FeaturesOfRole(_)
FeaturesOfRole(groups) ==
    IF groups = <<>> THEN <<>>
    ELSE FeatureNames(Head(groups).k, Head(groups).v.a)
         \o FeaturesOfRole(Tail(groups))

RECURSIVE CreateFeaturesFrom(_, _)
CreateFeaturesFrom(roles, features) ==
    IF roles = <<>> THEN features
    ELSE CreateFeaturesFrom(Tail(roles),
             PropPut(features, Head(roles).k, FeaturesOfRole(OwnProps(Head(roles).v))))

createFeatures(featuresData) ==
    ObjOf(CreateFeaturesFrom(OwnProps(featuresData), <<>>))

\* create(roles, permissions, features): Return(the index) or a Throw
create(roles, permissions, features, delimiter) ==
    LET withRoles == [roles |-> createRoles(roles)]
        built == IF Truthy(permissions)
                 THEN createPermissions(permissions, delimiter)
                 ELSE Return(Undefined)
    IN IF built.kind = "throw" THEN built
       ELSE Return([roles |-> withRoles.roles,
                    permissions |-> built.value,
                    features |-> IF Truthy(features) THEN createFeatures(features)
                                 ELSE Undefined])

\* init keeping the roles of the previous index when there is one
initKeepingRoles(options) ==
    LET merged == MergeOptions(options)
        out == create(merged.roles, merged.permissions, merged.features,
                      merged.delimiter)
    IN IF isEmptyArray(merged.roles) THEN Throw("Roles are required")
       ELSE IF out.kind = "throw" \/ OwnProps(data.roles) = <<>> THEN out
       ELSE Return([out.value EXCEPT !.roles = data.roles])

\* init(options): the outcome, Return(the new data) or a Throw
init(options) ==
    LET merged == MergeOptions(options)
    IN IF isEmptyArray(merged.roles) THEN Throw("Roles are required")
       ELSE create(merged.roles, merged.permissions, merged.features,
                   merged.delimiter)

\* the scan of can over the own properties of data.permissions
RECURSIVE ScanPermissions(_, _, _, _)
ScanPermissions(props, group, resource, action) ==
    IF props = <<>> THEN FALSE
    ELSE IF PermissionCan(Head(props).v, group, resource, action) THEN TRUE
    ELSE ScanPermissions(Tail(props), group, resource, action)

can(group, resource, action) ==
    ScanPermissions(OwnProps(data.permissions), group, resource, action)

\* data.roles[name]: an own property, or one the plain object inherits
hasRole(name) ==
    LET own == PropGet(OwnProps(data.roles), name)
        role == IF \E i \in 1..Len(OwnProps(data.roles)) :
                       OwnProps(data.roles)[i].k = name
                THEN own
                ELSE IF name \in DOMAIN ObjectPrototype THEN ObjectPrototype[name]
                ELSE Undefined
    IN IF ~Truthy(role) THEN Bool(FALSE) ELSE role

\* The properties the function Feature has of its own: createName and can
\* are assigned to Feature.prototype (feature.ts), none to Feature itself
FeatureOwnProperties == {}

\* hasFeature(group, resource): Feature.createName(...) is a call of
\* undefined unless Feature has createName of its own
hasFeature(group, resource) ==
    IF "createName" \notin FeatureOwnProperties THEN Throw("TypeError")
    ELSE LET name == createName(group, resource, initOptions.delimiter)
         IN IF name.kind = "throw" THEN name
            ELSE LET feature == PropGet(OwnProps(data.features), name.value)
                 IN Return(IF ~Truthy(feature) THEN Bool(FALSE) ELSE feature)

\* the loop of canAll: found after the queries of the list
RECURSIVE CountCan(_, _)
CountCan(permissions, found) ==
    IF permissions = <<>> THEN found
    ELSE LET permission == Head(permissions)
             _can == can(permission.group, permission.resource, permission.action)
         IN CountCan(Tail(permissions), IF _can THEN found + 1 ELSE found)

\* canAll with the hits counted once per distinct query
canAllDistinctHits(permissions) ==
    Cardinality({i \in 1..Len(permissions) :
                    /\ can(permissions[i].group, permissions[i].resource,
                           permissions[i].action)
                    /\ \A j \in 1..(i - 1) : permissions[j] # permissions[i]})
        = Len(permissions)

canAll(permissions) == CountCan(permissions, 0) = Len(permissions)

\* canAny that looks at the first query only
canAnyFirstOnly(permissions) ==
    /\ permissions # <<>>
    /\ can(permissions[1].group, permissions[1].resource, permissions[1].action)

RECURSIVE canAny(_)
canAny(permissions) ==
    IF permissions = <<>> THEN FALSE
    ELSE LET permission == Head(permissions)
         IN IF can(permission.group, permission.resource, permission.action)
            THEN TRUE
            ELSE canAny(Tail(permissions))

----------------------------------------------------------------------------
(* feature.ts, and the Access enum of the types *)

\* enum Access { None, Create = 1 << 1, Read = 1 << 2, Update = 1 << 3,
\*               Delete = 1 << 4, All = ~(~0 << 5) }
AccessNone == 0
AccessCreate == 2
AccessRead == 4
AccessUpdate == 8
AccessDelete == 16
AccessAll == 31

\* new Feature(group, resource, access, version = '', delimiter); version
\* is set only when truthy
Feature(group, resource, access, version, delimiter) ==
    LET name == createName(group, resource, delimiter)
    IN IF name.kind = "throw" THEN name
       ELSE Return([t |-> "object",
                    name |-> name.value,
                    group |-> group,
                    resource |-> resource,
                    access |-> access,
                    version |-> IF version # Undefined /\ Truthy(version)
                                THEN version ELSE Undefined])

\* Feature.prototype.can with > in the place of >=
FeatureCanStrictlyMore(f, group, resource, access) ==
    f.group = group /\ f.resource = resource /\ f.access > access

\* Feature.prototype.can(group, resource, access)
FeatureCan(f, group, resource, access) ==
    f.group = group /\ f.resource = resource /\ f.access >= access

----------------------------------------------------------------------------
(* index.ts, lines 293-499: createFeatures over access numbers *)

\* RBAC.prototype.createFeature(group, resource, feature)
prototypeCreateFeature(group, resource, feature, delimiter) ==
    Feature(group, resource, feature.access, feature.version, delimiter)

\* features[name] && features[name].access > rawFeature.access
SkipsFeature(features, name, rawFeature) ==
    LET stored == PropGet(features, name)
    IN stored # Undefined /\ stored.access > rawFeature.access

RECURSIVE FeaturesFromList(_, _, _, _)
FeaturesFromList(group, list, features, delimiter) ==
    IF list = <<>> THEN Return(features)
    ELSE LET rawFeature == Head(list).v
             parsed == prototypeCreateFeature(group, Head(list).k, rawFeature,
                                              delimiter)
         IN IF parsed.kind = "throw" THEN parsed
            ELSE IF SkipsFeature(features, parsed.value.name, rawFeature)
            THEN FeaturesFromList(group, Tail(list), features, delimiter)
            ELSE FeaturesFromList(group, Tail(list),
                                  PropPut(features, parsed.value.name, parsed.value),
                                  delimiter)

RECURSIVE FeaturesFromGroup(_, _, _)
FeaturesFromGroup(groups, features, delimiter) ==
    IF groups = <<>> THEN Return(features)
    ELSE LET done == FeaturesFromList(Head(groups).k, OwnProps(Head(groups).v),
                                      features, delimiter)
         IN IF done.kind = "throw" THEN done
            ELSE FeaturesFromGroup(Tail(groups), done.value, delimiter)

RECURSIVE FeaturesFromData(_, _, _)
FeaturesFromData(featuresData, features, delimiter) ==
    IF featuresData = <<>> THEN Return(features)
    ELSE LET done == FeaturesFromGroup(OwnProps(Head(featuresData)),
                                       features, delimiter)
         IN IF done.kind = "throw" THEN done
            ELSE FeaturesFromData(Tail(featuresData), done.value, delimiter)

\* createFeatures in which the later declaration of a name always wins
RECURSIVE LastDeclarationWins(_, _, _)
LastDeclarationWins(decls, features, delimiter) ==
    IF decls = <<>> THEN features
    ELSE LET d == Head(decls)
             f == Feature(d.group, d.resource, d.raw.access, d.raw.version,
                          delimiter).value
         IN LastDeclarationWins(Tail(decls), PropPut(features, f.name, f), delimiter)

RECURSIVE FeatureDeclarationsOf(_)
FeatureDeclarationsOf(featuresData) ==
    IF featuresData = <<>> THEN <<>>
    ELSE LET groups == OwnProps(Head(featuresData))
         IN [i \in 1..Len(groups) |->
                [group |-> groups[i].k,
                 resource |-> OwnProps(groups[i].v)[1].k,
                 raw |-> OwnProps(groups[i].v)[1].v]]
            \o FeatureDeclarationsOf(Tail(featuresData))

prototypeCreateFeaturesLastWins(featuresData, delimiter) ==
    Return(ObjOf(LastDeclarationWins(FeatureDeclarationsOf(featuresData.a),
                                     <<>>, delimiter)))

\* RBAC.prototype.createFeatures(featuresData): only an array has forEach
prototypeCreateFeatures(featuresData, delimiter) ==
    IF featuresData.t # "array" THEN Throw("TypeError")
    ELSE LET done == FeaturesFromData(featuresData.a, <<>>, delimiter)
         IN IF done.kind = "throw" THEN done ELSE Return(ObjOf(done.value))

----------------------------------------------------------------------------
(* The inputs of the naming codec and of Permission.can *)

Chars == {"a", ":"}
Strings == {Str(s) : s \in SeqsUpTo(Chars, MaxLen)}
\* a group or resource argument: a string, possibly empty, or absent
NameParts == Strings \cup {Undefined}
Delimiters == {Undefined, Str(<<>>), Str(<<":">>), Str(<<":", ":">>)}
\* a composite name given to decodeName
Names == {Str(s) : s \in SeqsUpTo(Chars, MaxLen + 1)} \cup {Undefined}

sUsers == Str(<<"u", "s", "e", "r", "s">>)
sAgencies == Str(<<"a", "g", "e", "n", "c", "i", "e", "s">>)
sManage == Str(<<"m", "a", "n", "a", "g", "e">>)
sLicence == Str(<<"l", "i", "c", "e", "n", "c", "e">>)
sCreate == Str(<<"c", "r", "e", "a", "t", "e">>)
sRead == Str(<<"r", "e", "a", "d">>)
sUpdate == Str(<<"u", "p", "d", "a", "t", "e">>)
sDelete == Str(<<"d", "e", "l", "e", "t", "e">>)
sView == Str(<<"v", "i", "e", "w">>)
sEat == Str(<<"e", "a", "t">>)
sStar == Str(<<"*">>)
sColon == Str(<<":">>)

Groups == {sUsers, sAgencies}
Resources == {sManage, sLicence}
\* the `action` of a permission: a list of actions, or one action
HeldActions == {Arr(<<sCreate, sRead, sUpdate>>), Arr(<<sView>>), sCreate, sView}
\* the action a query asks for
Probes == {sCreate, sRead, sDelete, sView, sEat, sStar, Str(<<>>)}

----------------------------------------------------------------------------
(* The inputs of the RBAC index *)

sA == Str(<<"a">>)
sAB == Str(<<"a", ":", "b">>)
sC == Str(<<"c">>)
sBC == Str(<<"b", ":", "c">>)
sDash == Str(<<"-">>)
sUsersManage ==
    Str(<<"u", "s", "e", "r", "s", ":", "m", "a", "n", "a", "g", "e">>)

\* a permission as written in the configuration: { action, version? } and
\* whatever other own properties it has
Raw(action, props) ==
    [t |-> "object", action |-> action, version |-> Undefined, props |-> props]

sBeta == Str(<<"b", "e", "t", "a">>)

\* a permission written with a version
RawVersion(action, version) == [Raw(action, <<>>) EXCEPT !.version = version]

\* one element of the `permissions` array: { group: { resource: raw } }
PermissionGroups ==
    { ObjOf(<<Prop(sUsers, ObjOf(<<
          Prop(sManage, Raw(Arr(<<sCreate, sRead, sUpdate>>), <<>>))>>))>>),
      ObjOf(<<Prop(sUsers, ObjOf(<<
          Prop(sManage, Raw(sCreate, <<>>)),
          Prop(sLicence, Raw(Arr(<<sView>>), <<>>))>>))>>),
      ObjOf(<<Prop(sA, ObjOf(<<Prop(sBC, Raw(Arr(<<sView>>), <<>>))>>))>>),
      ObjOf(<<Prop(sAB, ObjOf(<<Prop(sC, Raw(Arr(<<sCreate>>), <<>>))>>))>>),
      ObjOf(<<Prop(sUsers, ObjOf(<<
          Prop(sManage, Raw(sRead, <<Prop(sUsersManage, Raw(sRead, <<>>))>>))>>))>>),
      ObjOf(<<Prop(sUsers, ObjOf(<<
          Prop(sManage, RawVersion(sCreate, sBeta))>>))>>) }

\* the README's form of `permissions`: an object, not an array
PermissionsObject ==
    ObjOf(<<Prop(sUsers, ObjOf(<<
        Prop(sManage, Raw(Arr(<<sCreate, sRead, sUpdate>>), <<>>))>>))>>)

BaseRoles == Arr(<<"userAdmin", "agencyAdmin">>)

RolesInputs ==
    { Absent, Arr(<<>>), Arr(<<"userAdmin", "userAdmin">>), ObjOf(<<>>),
      ObjOf(<<Prop("admin", "userAdmin")>>) }

FeaturesInputs ==
    { ObjOf(<<Prop("agencyAdmin", ObjOf(<<Prop(sAgencies, Arr(<<sManage, sLicence>>))>>)),
              Prop("usersAdmin", ObjOf(<<Prop(sUsers, Arr(<<sManage>>))>>))>>) }

DelimiterInputs == {Absent, sDash, Str(<<>>)}

Options(roles, permissions, features, delimiter) ==
    [roles |-> roles, permissions |-> permissions,
     features |-> features, delimiter |-> delimiter]

\* the options given to init: one field varied at a time
InitOptions ==
    { Options(BaseRoles, Arr(p), Absent, d) :
        p \in SeqsUpTo(PermissionGroups, MaxGroups), d \in DelimiterInputs }
    \cup { Options(BaseRoles, p, Absent, Absent) : p \in {Absent, PermissionsObject} }
    \cup { Options(r, Absent, Absent, Absent) : r \in RolesInputs }
    \cup { Options(BaseRoles, Absent, f, d) :
               f \in FeaturesInputs, d \in DelimiterInputs }

\* the names hasRole is asked about
RoleQueries == {"userAdmin", "agencyAdmin", "superadmin", "admin", "toString"}

QueryGroups == {sUsers, sA, sAB}
QueryResources == {sManage, sLicence, sC, sBC}

\* an element of the list given to canAny and canAll
Query(group, resource, action) ==
    [group |-> group, resource |-> resource, action |-> action]

ListQueries ==
    { Query(sUsers, sManage, sRead), Query(sUsers, sLicence, sView),
      Query(sUsers, sManage, sStar), Query(sUsers, sLicence, sUpdate) }

QueryLists == SeqsUpTo(ListQueries, MaxQueries)

----------------------------------------------------------------------------
(* The inputs of the bitmask createFeatures and of Feature.can *)

\* a feature as written in the configuration: { access }
RawFeature(access) == [t |-> "object", access |-> access, version |-> Undefined]

\* one element of the `features` array: { group: { resource: raw } }
FeatureGroups ==
    { ObjOf(<<Prop(sUsers, ObjOf(<<Prop(sManage, RawFeature(AccessCreate))>>))>>),
      ObjOf(<<Prop(sUsers, ObjOf(<<
          Prop(sManage, RawFeature(AccessCreate + AccessRead))>>))>>),
      ObjOf(<<Prop(sUsers, ObjOf(<<Prop(sManage, RawFeature(AccessAll))>>))>>),
      ObjOf(<<Prop(sUsers, ObjOf(<<
          Prop(sLicence, RawFeature(AccessRead)),
          Prop(sManage, RawFeature(AccessRead))>>))>>),
      ObjOf(<<Prop(sA, ObjOf(<<Prop(sBC, RawFeature(AccessUpdate))>>))>>),
      ObjOf(<<Prop(sAB, ObjOf(<<Prop(sC, RawFeature(AccessDelete))>>))>>) }

\* every union of Create, Read, Update and Delete (the empty one is None)
AccessUnions ==
    { c + r + u + d : c \in {AccessNone, AccessCreate},
                      r \in {AccessNone, AccessRead},
                      u \in {AccessNone, AccessUpdate},
                      d \in {AccessNone, AccessDelete} }

\* the access a feature holds, and the access a query requires
HeldAccesses ==
    {AccessNone, AccessCreate, AccessRead, AccessCreate + AccessRead,
     AccessUpdate + AccessDelete, AccessAll}
RequiredAccesses == AccessUnions \cup {AccessAll}

----------------------------------------------------------------------------
(* The inputs of the rule registry *)

OneRule(n) == [t |-> "string", rule |-> n]
RuleList(l) == [t |-> "array", rules |-> l]

\* user 1 owns the certificate and is no admin; user 2 is an admin
Users == {Obj(1, FALSE), Obj(2, TRUE)}
Certificate == [id |-> 1, ownerId |-> 1]
Args == {<<>>, <<Certificate>>}

RuleNames == {"admin", "delete-certificate", "toString", "valueOf"}

\* the entries a rules config is made of; a requirement left out of an
\* entry is undefined
RuleEntries ==
    { [rules |-> RuleList(<<"delete-certificate">>), requirement |-> Fn("isOwner")],
      [rules |-> RuleList(<<"admin", "delete-certificate">>), requirement |-> Fn("isAdmin")],
      [rules |-> RuleList(<<"delete-certificate">>), requirement |-> Undefined],
      [rules |-> OneRule("toString"), requirement |-> Fn("isAdmin")] }

RoleEntries ==
    { [rules |-> OneRule("admin"), requirement |-> Fn("isOwner")] }

RulesConfigs ==
    { [permissions |-> p, roles |-> r] :
        p \in SeqsUpTo(RuleEntries, MaxEntries),
        r \in {Undefined} \cup {Arr(<<e>>) : e \in RoleEntries} }

\* what a quorum call is given as `rules`
RulesArgs ==
    {OneRule(n) : n \in RuleNames}
    \cup {RuleList(l) : l \in SeqsUpTo(RuleNames, MaxRules)}

\* the applyRule calls a rules config leads to, in order, as <<rule, requirement>>
RECURSIVE Registrations(_)
Registrations(entries) ==
    IF entries = <<>> THEN <<>>
    ELSE LET e == Head(entries)
             names == IF e.rules.t = "array" THEN e.rules.rules ELSE <<e.rules.rule>>
         IN [i \in 1..Len(names) |-> <<names[i], e.requirement>>]
            \o Registrations(Tail(entries))

AllRegistrations(rules) ==
    Registrations(rules.permissions)
    \o (IF rules.roles.t = "array" THEN Registrations(rules.roles.a) ELSE <<>>)

RECURSIVE NoteFirst(_, _)
NoteFirst(first, regs) ==
    IF regs = <<>> THEN first
    ELSE NoteFirst(IF Head(regs)[1] \in DOMAIN first THEN first
                   ELSE Put(first, Head(regs)[1], Head(regs)[2]),
                   Tail(regs))

----------------------------------------------------------------------------
(* The state machine.  The engine is synchronous and single-threaded: an   *)
(* operation runs to its end before the next one starts.  `call` and       *)
(* `result` hold the operation that has just run until its caller takes    *)
(* the result (TakeResult); the next operation starts after that.          *)

Init ==
    /\ initOptions = [delimiter |-> Undefined]
    /\ data = [permissions |-> ObjOf(<<>>), features |-> ObjOf(<<>>),
               roles |-> ObjOf(<<>>)]
    /\ user = Null
    /\ rulesMap = EmptyMap
    /\ call = [op |-> "none"]
    /\ result = Return(Undefined)
    /\ duplicates = <<>>
    /\ firstReg = EmptyMap
    /\ firstUser = EmptyMap

Idle == call.op = "none"

RBACState == <<initOptions, data>>
ACLState == <<user, rulesMap, firstReg, firstUser>>

TakeResult ==
    /\ ~Idle
    /\ call' = [op |-> "none"]
    /\ result' = Return(Undefined)
    /\ duplicates' = <<>>
    /\ UNCHANGED <<RBACState, ACLState>>

(* helpers.ts and permission.ts called on their own *)

createNameCall ==
    \E group \in NameParts, resource \in NameParts, delimiter \in Delimiters :
        /\ Idle
        /\ call' = [op |-> "createName", group |-> group,
                    resource |-> resource, delimiter |-> delimiter]
        /\ result' = createName(group, resource, delimiter)
        /\ UNCHANGED <<RBACState, ACLState, duplicates>>

decodeNameCall ==
    \E name \in Names, delimiter \in Delimiters :
        /\ Idle
        /\ call' = [op |-> "decodeName", name |-> name, delimiter |-> delimiter]
        /\ result' = decodeName(name, delimiter)
        /\ UNCHANGED <<RBACState, ACLState, duplicates>>

\* decodeName(createName(group, resource, delimiter), delimiter)
roundTripCall ==
    \E group \in NameParts, resource \in NameParts, delimiter \in Delimiters :
        LET name == createName(group, resource, delimiter)
        IN /\ Idle
           /\ call' = [op |-> "roundTrip", group |-> group,
                       resource |-> resource, delimiter |-> delimiter]
           /\ result' = IF name.kind = "throw" THEN name
                        ELSE decodeName(name.value, delimiter)
           /\ UNCHANGED <<RBACState, ACLState, duplicates>>

\* Permission(...).can(group, resource, action)
permissionCanCall ==
    \E ownGroup \in Groups, ownResource \in Resources, held \in HeldActions,
       group \in Groups, resource \in Resources, action \in Probes :
        LET p == Permission(ownGroup, ownResource, held, Undefined, sColon)
        IN /\ Idle
           /\ call' = [op |-> "Permission.can", permission |-> p.value,
                       group |-> group, resource |-> resource, action |-> action]
           /\ result' = Return(Bool(PermissionCan(p.value, group, resource, action)))
           /\ UNCHANGED <<RBACState, ACLState, duplicates>>

\* Permission(...).canActions(actions)
permissionCanActionsCall ==
    \E held \in HeldActions, actions \in SeqsUpTo(Probes, MaxActions) :
        LET p == Permission(sUsers, sManage, held, Undefined, sColon)
        IN /\ Idle
           /\ call' = [op |-> "Permission.canActions", permission |-> p.value,
                       actions |-> actions]
           /\ result' = Return(Num(PermissionCanActions(p.value, actions)))
           /\ UNCHANGED <<RBACState, ACLState, duplicates>>



\* RBAC.prototype.createFeatures(featuresData) with the delimiter ':'
createFeaturesCall ==
    \E groups \in SeqsUpTo(FeatureGroups, MaxFeatures) :
        /\ Idle
        /\ call' = [op |-> "createFeatures", featuresData |-> Arr(groups)]
        /\ result' = prototypeCreateFeatures(Arr(groups), sColon)
        /\ UNCHANGED <<RBACState, ACLState, duplicates>>

\* new Feature(...).can(group, resource, access)
featureCanCall ==
    \E ownGroup \in Groups, ownResource \in Resources, held \in HeldAccesses,
       group \in Groups, resource \in Resources, access \in RequiredAccesses :
        LET f == Feature(ownGroup, ownResource, held, Undefined, sColon)
        IN /\ Idle
           /\ call' = [op |-> "Feature.can", feature |-> f.value,
                       group |-> group, resource |-> resource, access |-> access]
           /\ result' = Return(Bool(FeatureCan(f.value, group, resource, access)))
           /\ UNCHANGED <<RBACState, ACLState, duplicates>>

NextEntity ==
    createNameCall \/ decodeNameCall \/ roundTripCall \/ permissionCanCall
    \/ permissionCanActionsCall \/ createFeaturesCall \/ featureCanCall
    \/ TakeResult

SpecEntity == Init /\ [][NextEntity]_vars

(* acl.ts *)

\* defineACL(user, rules)
defineACL ==
    \E u \in Users, rules \in RulesConfigs :
        LET st == parseRules(rulesMap, rules)
        IN /\ Idle
           /\ user' = u
           /\ rulesMap' = st.map
           /\ duplicates' = st.dups
           /\ firstReg' = NoteFirst(firstReg, AllRegistrations(rules))
           /\ firstUser' = NoteFirst(firstUser,
                  [i \in 1..Len(AllRegistrations(rules)) |->
                      <<AllRegistrations(rules)[i][1], u>>])
           /\ call' = [op |-> "defineACL", user |-> u, rules |-> rules]
           /\ result' = Return(Undefined)
           /\ UNCHANGED RBACState

\* ACL.can and ACL.canAll
ACLcan ==
    \E rules \in RulesArgs, args \in Args :
        /\ Idle
        /\ call' = [op |-> "ACL.can", rules |-> rules, args |-> args]
        /\ result' = Return(canRuleChecker(rules, args))
        /\ UNCHANGED <<RBACState, ACLState, duplicates>>

\* ACL.canAny
ACLcanAny ==
    \E rules \in RulesArgs, args \in Args :
        /\ Idle
        /\ call' = [op |-> "ACL.canAny", rules |-> rules, args |-> args]
        /\ result' = Return(canAnyRuleChecker(rules, args))
        /\ UNCHANGED <<RBACState, ACLState, duplicates>>

\* ACL.canNot and ACL.canNotAll
ACLcanNot ==
    \E rules \in RulesArgs, args \in Args :
        /\ Idle
        /\ call' = [op |-> "ACL.canNot", rules |-> rules, args |-> args]
        /\ result' = Return(notRuleChecker(rules, args))
        /\ UNCHANGED <<RBACState, ACLState, duplicates>>

\* ACL.canNotAny
ACLcanNotAny ==
    \E rules \in RulesArgs, args \in Args :
        /\ Idle
        /\ call' = [op |-> "ACL.canNotAny", rules |-> rules, args |-> args]
        /\ result' = Return(notAnyRuleChecker(rules, args))
        /\ UNCHANGED <<RBACState, ACLState, duplicates>>

NextACL ==
    defineACL \/ ACLcan \/ ACLcanAny \/ ACLcanNot \/ ACLcanNotAny \/ TakeResult

SpecACL == Init /\ [][NextACL]_vars

(* index.ts *)

\* init(options): initOptions is assigned before the roles are checked,
\* data only when create has returned
RBACinit ==
    \E options \in InitOptions :
        LET out == init(options)
        IN /\ Idle
           /\ initOptions' = [delimiter |-> MergeOptions(options).delimiter]
           /\ data' = IF out.kind = "throw" THEN data ELSE out.value
           /\ call' = [op |-> "init", options |-> options]
           /\ result' = IF out.kind = "throw" THEN out ELSE Return(Undefined)
           /\ UNCHANGED <<ACLState, duplicates>>

\* can(group, resource, action)
RBACcan ==
    \E group \in QueryGroups, resource \in QueryResources, action \in Probes :
        /\ Idle
        /\ call' = [op |-> "can", group |-> group,
                    resource |-> resource, action |-> action]
        /\ result' = Return(Bool(can(group, resource, action)))
        /\ UNCHANGED <<RBACState, ACLState, duplicates>>

\* canAll(permissions)
RBACcanAll ==
    \E permissions \in QueryLists :
        /\ Idle
        /\ call' = [op |-> "canAll", permissions |-> permissions]
        /\ result' = Return(Bool(canAll(permissions)))
        /\ UNCHANGED <<RBACState, ACLState, duplicates>>

\* canAny(permissions)
RBACcanAny ==
    \E permissions \in QueryLists :
        /\ Idle
        /\ call' = [op |-> "canAny", permissions |-> permissions]
        /\ result' = Return(Bool(canAny(permissions)))
        /\ UNCHANGED <<RBACState, ACLState, duplicates>>

\* hasRole(name)
RBAChasRole ==
    \E name \in RoleQueries :
        /\ Idle
        /\ call' = [op |-> "hasRole", name |-> name]
        /\ result' = Return(hasRole(name))
        /\ UNCHANGED <<RBACState, ACLState, duplicates>>

\* hasFeature(group, resource)
RBAChasFeature ==
    \E group \in QueryGroups \cup {sAgencies, Undefined},
       resource \in QueryResources \cup {Undefined} :
        /\ Idle
        /\ call' = [op |-> "hasFeature", group |-> group, resource |-> resource]
        /\ result' = hasFeature(group, resource)
        /\ UNCHANGED <<RBACState, ACLState, duplicates>>

Next ==
    RBACinit \/ RBACcan \/ RBACcanAll \/ RBACcanAny \/ RBAChasRole
    \/ RBAChasFeature \/ TakeResult

Spec == Init /\ [][Next]_vars

----------------------------------------------------------------------------
(* The properties of the permissions and of the naming codec *)

\* the actions a permission holds: the elements of a list, the one action
\* of a scalar
HeldSet(held) ==
    IF held.t = "array" THEN {held.a[i] : i \in 1..Len(held.a)} ELSE {held}

Holds(p, group, resource, action) ==
    /\ p.group = group
    /\ p.resource = resource
    /\ action \in HeldSet(p.action)

IndexedPermissions ==
    LET props == OwnProps(data.permissions)
    IN {props[i].v : i \in 1..Len(props)}

\* C1: can(group, resource, action) returns true iff some permission of the
\* built index has exactly that group and that resource and holds the
\* action, and returns false otherwise.
CanIffIndexedPermissionHolds ==
    call.op = "can" =>
        /\ result.kind = "return"
        /\ result.value.t = "boolean"
        /\ result.value.b <=>
              \E p \in IndexedPermissions :
                  Holds(p, call.group, call.resource, call.action)

\* C2: Permission.can(group, resource, action) is true iff group and
\* resource equal the permission's own and the action is one of the held
\* actions, for a list of held actions and for a single held action.
PermissionCanIffMember ==
    call.op = "Permission.can" =>
        /\ result.kind = "return"
        /\ result.value.t = "boolean"
        /\ result.value.b <=>
              Holds(call.permission, call.group, call.resource, call.action)

NonEmptyString(v) == v.t = "string" /\ v.s # <<>>

\* C10: for non-empty group, resource and delimiter where neither part
\* contains the delimiter, decodeName(createName(group, resource, delimiter),
\* delimiter) gives back the group and the resource.
RoundTripGivesBackParts ==
    ( /\ call.op = "roundTrip"
      /\ NonEmptyString(call.group)
      /\ NonEmptyString(call.resource)
      /\ NonEmptyString(call.delimiter)
      /\ ~StringIncludes(call.group.s, call.delimiter.s)
      /\ ~StringIncludes(call.resource.s, call.delimiter.s) )
    => /\ result.kind = "return"
       /\ result.value.action = call.group
       /\ result.value.resource = call.resource

----------------------------------------------------------------------------
(* The properties of the rule registry and of the quorum checkers *)

\* the names a quorum call was given
CalledNames ==
    IF call.rules.t = "string" THEN <<call.rules.rule>> ELSE call.rules.rules

QuorumOps == {"ACL.can", "ACL.canAny", "ACL.canNot", "ACL.canNotAny"}

\* a name counts as registered when the registry has it as its own
RegisteredName(n) == n \in DOMAIN rulesMap

\* the predicate registered for n returns truthy for the bound user and args
SatisfiedName(n, args) ==
    /\ RegisteredName(n)
    /\ rulesMap[n].t = "function"
    /\ LET o == Apply(rulesMap[n].f, user, args)
       IN o.kind = "return" /\ Truthy(o.value)

Total == Cardinality({i \in 1..Len(CalledNames) : RegisteredName(CalledNames[i])})

Satisfied ==
    Cardinality({i \in 1..Len(CalledNames) : SatisfiedName(CalledNames[i], call.args)})

ReturnsTrue == result = Return(Bool(TRUE))
ReturnsFalse == result = Return(Bool(FALSE))
ReturnsIff(P) == IF P THEN ReturnsTrue ELSE ReturnsFalse

\* C3: for a list of rule names can/canAll returns true iff satisfied ==
\* total, total being the listed names that are registered and satisfied
\* those whose predicate returns truthy for the bound user and the arguments.
CanIffAllSatisfied ==
    (call.op = "ACL.can" /\ call.rules.t = "array") => ReturnsIff(Satisfied = Total)

\* a name that a plain object does not inherit
OrdinaryName(n) == n \notin DOMAIN ObjectPrototype

OrdinaryNames(names) == \A i \in 1..Len(names) : OrdinaryName(names[i])

\* C4: can of names that were never registered, given as one string or as a
\* list of only such names, returns false and does not throw.  Stated for
\* the names that a plain object does not inherit.
CanOfUnregisteredIsFalse ==
    ( /\ call.op = "ACL.can"
      /\ CalledNames # <<>>
      /\ OrdinaryNames(CalledNames)
      /\ \A i \in 1..Len(CalledNames) : CalledNames[i] \notin DOMAIN firstReg )
    => ReturnsFalse

\* the predicate registered for n throws when called
ThrowsWhenCalled(n, args) ==
    /\ RegisteredName(n)
    /\ rulesMap[n].t = "function"
    /\ Apply(rulesMap[n].f, user, args).kind = "throw"

Evaluated == {i \in 1..Len(CalledNames) : In(CalledNames[i], rulesMap)}

EvaluatedTruthy ==
    {i \in Evaluated :
        Truthy(evaluateRuleCallback(Get(rulesMap, CalledNames[i]), call.args))}

\* C5: when a registered predicate throws during the evaluation of a list,
\* the throw is caught, the rule counts as not satisfied, the other rules of
\* the list are still evaluated, and the quorum call returns a boolean.
ThrowInListIsContained ==
    ( /\ call.op \in QuorumOps
      /\ call.rules.t = "array"
      /\ OrdinaryNames(CalledNames)
      /\ \E i \in 1..Len(CalledNames) : ThrowsWhenCalled(CalledNames[i], call.args) )
    => /\ result.kind = "return"
       /\ result.value.t = "boolean"
       /\ ruleChecker(call.rules, call.args) =
              Arr(<<Num(Cardinality(Evaluated)), Num(Cardinality(EvaluatedTruthy))>>)
       /\ \A i \in EvaluatedTruthy : ~ThrowsWhenCalled(CalledNames[i], call.args)

\* the names of the registrations that are not the first of their name
RECURSIVE LaterRegistrations(_, _)
LaterRegistrations(first, regs) ==
    IF regs = <<>> THEN <<>>
    ELSE IF Head(regs)[1] \in DOMAIN first
    THEN <<Head(regs)[1]>> \o LaterRegistrations(first, Tail(regs))
    ELSE LaterRegistrations(Put(first, Head(regs)[1], Head(regs)[2]), Tail(regs))

\* C6: after any sequence of registrations, in one rules config or over
\* several defineACL calls, the registry holds for every name the
\* requirement of its first registration, and every later registration of
\* a name is reported and changes nothing.  Stated for the names that a
\* plain object does not inherit.
FirstRegistrationWins ==
    [][ ( /\ call'.op = "defineACL"
          /\ \A n \in DOMAIN firstReg' : OrdinaryName(n) )
        => /\ rulesMap' = firstReg'
           /\ duplicates' = LaterRegistrations(firstReg, AllRegistrations(call'.rules))
      ]_vars

\* a quorum call given one registered name as a string
OneRegisteredName ==
    /\ call.rules.t = "string"
    /\ OrdinaryName(call.rules.rule)
    /\ RegisteredName(call.rules.rule)

\* C7: canAny returns true iff satisfied > 0; for one registered name given
\* as a string, total is 1 and satisfied is 1 when its predicate is
\* satisfied.
CanAnyIffSomeSatisfied ==
    (call.op = "ACL.canAny" /\ OneRegisteredName) => ReturnsIff(Satisfied > 0)

\* C8: canNot returns true iff satisfied == 0; canNot of one registered
\* rule, given as a string, whose predicate is not satisfied is true.
CanNotIffNoneSatisfied ==
    (call.op = "ACL.canNot" /\ OneRegisteredName) => ReturnsIff(Satisfied = 0)

\* C9: canNotAny returns true iff satisfied < total; canNotAny of one
\* registered rule, given as a string, whose predicate is not satisfied is
\* true.
CanNotAnyIffSomeUnsatisfied ==
    (call.op = "ACL.canNotAny" /\ OneRegisteredName) => ReturnsIff(Satisfied < Total)

----------------------------------------------------------------------------
(* The naming codec on its own *)

EmptyOrAbsent(v) == v = Undefined \/ v = Str(<<>>)

\* C11: createName(group, resource, delimiter) throws when group, resource
\* or delimiter is empty or absent; otherwise it returns group, then
\* delimiter, then resource; it changes nothing else.
CreateNameThrowsOrConcatenates ==
    [][ call'.op = "createName" =>
          /\ IF \/ EmptyOrAbsent(call'.group)
                \/ EmptyOrAbsent(call'.resource)
                \/ EmptyOrAbsent(call'.delimiter)
             THEN result'.kind = "throw"
             ELSE result' = Return(Str(call'.group.s \o call'.delimiter.s
                                       \o call'.resource.s))
          /\ UNCHANGED <<initOptions, data, user, rulesMap>>
      ]_vars

\* createName has returned a name made of two different parts
CreateNameReturned ==
    /\ call.op = "createName"
    /\ result.kind = "return"
    /\ call.group # call.resource

\* C12: decodeName(name, delimiter) throws when the delimiter is empty, the
\* name is empty, or the delimiter does not occur in the name; otherwise it
\* splits at the leftmost occurrence: the first part is the text before it,
\* the second part all the text after the whole delimiter.
DecodeNameSplitsAtLeftmost ==
    call.op = "decodeName" =>
        IF \/ EmptyOrAbsent(call.delimiter)
           \/ EmptyOrAbsent(call.name)
           \/ ~StringIncludes(call.name.s, call.delimiter.s)
        THEN result.kind = "throw"
        ELSE LET pos == IndexOf(call.name.s, call.delimiter.s)
             IN result = Return(
                    [action |-> Str(Substring(call.name.s, 0, pos)),
                     resource |-> Str(SubstringFrom(call.name.s,
                                          pos + Len(call.delimiter.s)))])

----------------------------------------------------------------------------
(* The properties of the RBAC index *)

CanOf(q) == can(q.group, q.resource, q.action)

RECURSIVE EveryQueryAllowed(_)
EveryQueryAllowed(queries) ==
    IF queries = <<>> THEN TRUE
    ELSE IF ~CanOf(Head(queries)) THEN FALSE
    ELSE EveryQueryAllowed(Tail(queries))

\* C14: canAll(queries), which counts the hits and compares the count with
\* the length of the list, returns what the short-circuiting conjunction of
\* can over the queries returns, for every list, with repeated queries and
\* empty included.
CanAllIsConjunction ==
    call.op = "canAll" =>
        result = Return(Bool(EveryQueryAllowed(call.permissions)))

\* canAll has returned true for a list that repeats a query
CanAllOfRepeatedQuery ==
    /\ call.op = "canAll"
    /\ result = Return(Bool(TRUE))
    /\ Len(call.permissions) = 2
    /\ call.permissions[1] = call.permissions[2]

----------------------------------------------------------------------------
(* Permission.canActions *)

\* C15: Permission.canActions(actions) returns the number of entries of the
\* list that are members of the permission's action set (so that "any" is
\* count > 0 and "all" is count == length of the list).
CanActionsCountsMembers ==
    call.op = "Permission.canActions" =>
        result = Return(Num(Cardinality(
                     {i \in 1..Len(call.actions) :
                         call.actions[i] \in HeldSet(call.permission.action)})))

----------------------------------------------------------------------------
(* init and the roles *)

EmptyRolesInput(roles) == roles \in {Absent, Arr(<<>>), ObjOf(<<>>)}

\* C16: init fails with 'Roles are required' and builds no index whenever
\* the roles input is an empty list, an empty map, or missing from the
\* options.
InitRequiresRoles ==
    [][ (call'.op = "init" /\ EmptyRolesInput(call'.options.roles)) =>
          /\ result' = Throw("Roles are required")
          /\ data' = data
      ]_vars

\* the role names of a roles input: the elements of a list, the values of
\* a map
ConfiguredRoleNames(roles) ==
    {OwnProps(roles)[i].v : i \in 1..Len(OwnProps(roles))}

IndexedRoleNames == {OwnProps(data.roles)[i].k : i \in 1..Len(OwnProps(data.roles))}

\* C17: after init, hasRole(name) returns the Role named name iff name is
\* one of the configured role names and false otherwise; the roles index
\* has exactly one entry per distinct configured name, a repeated name
\* overwriting the earlier entry.
HasRoleIffConfigured ==
    [][ /\ (call'.op = "init" /\ result'.kind = "return") =>
              LET names == ConfiguredRoleNames(MergeOptions(call'.options).roles)
                  props == OwnProps(data'.roles)
              IN /\ {props[i].k : i \in 1..Len(props)} = names
                 /\ Len(props) = Cardinality(names)
                 /\ \A i \in 1..Len(props) : props[i].v = Role(props[i].k)
        /\ (call'.op = "hasRole" /\ IndexedRoleNames # {}) =>
              result' = Return(IF call'.name \in IndexedRoleNames
                               THEN Role(call'.name) ELSE Bool(FALSE))
      ]_vars

----------------------------------------------------------------------------
(* hasFeature *)

\* C18: hasFeature(group, resource) never throws: it returns the feature
\* stored under the composite key of (group, resource), and false when no
\* feature is stored under that key.  Stated for a non-empty group and
\* resource, after an init has set the delimiter.
HasFeatureNeverThrows ==
    ( /\ call.op = "hasFeature"
      /\ Truthy(call.group)
      /\ Truthy(call.resource)
      /\ Truthy(initOptions.delimiter) )
    => /\ result.kind = "return"
       /\ LET key == createName(call.group, call.resource, initOptions.delimiter)
              stored == PropGet(OwnProps(data.features), key.value)
          IN result.value = IF stored = Undefined THEN Bool(FALSE) ELSE stored

----------------------------------------------------------------------------
(* The counters of a list evaluation *)

\* the predicate registered for n is a function that returns when called
DispatchedName(n, args) ==
    /\ RegisteredName(n)
    /\ rulesMap[n].t = "function"
    /\ Apply(rulesMap[n].f, user, args).kind = "return"

\* C19: in a list evaluation total counts only the predicates that were
\* dispatched successfully: a registered entry whose predicate throws, or
\* whose value is not a function, is counted neither in total nor in
\* satisfied.  Stated for the names that a plain object does not inherit.
TotalCountsOnlyDispatched ==
    ( /\ call.op \in QuorumOps
      /\ call.rules.t = "array"
      /\ OrdinaryNames(CalledNames) )
    => ruleChecker(call.rules, call.args) =
           Arr(<<Num(Cardinality({i \in 1..Len(CalledNames) :
                                     DispatchedName(CalledNames[i], call.args)})),
                 Num(Satisfied)>>)

----------------------------------------------------------------------------
(* Registering again *)

RegistrationNames(regs) == {regs[i][1] : i \in 1..Len(regs)}

\* C20: registering again replaces the registry wholesale: after a
\* defineACL call the registered rule names are exactly those of its rules
\* config, and a name registered only by an earlier call is no longer
\* registered.  Stated for the names that a plain object does not inherit.
DefineACLReplacesRegistry ==
    [][ ( /\ call'.op = "defineACL"
          /\ \A n \in RegistrationNames(AllRegistrations(call'.rules)) :
                 OrdinaryName(n) )
        => DOMAIN rulesMap' = RegistrationNames(AllRegistrations(call'.rules))
      ]_vars

----------------------------------------------------------------------------
(* The permissions index against its configuration *)

\* the declarations of a permissions configuration, in order, as
\* [group, resource, raw]
RECURSIVE DeclarationsOfList(_, _)
DeclarationsOfList(group, list) ==
    IF list = <<>> THEN <<>>
    ELSE <<[group |-> group, resource |-> Head(list).k, raw |-> Head(list).v]>>
         \o DeclarationsOfList(group, Tail(list))

RECURSIVE DeclarationsOfGroups(_)
DeclarationsOfGroups(groups) ==
    IF groups = <<>> THEN <<>>
    ELSE DeclarationsOfList(Head(groups).k, OwnProps(Head(groups).v))
         \o DeclarationsOfGroups(Tail(groups))

RECURSIVE Declarations(_)
Declarations(permissionsData) ==
    IF permissionsData = <<>> THEN <<>>
    ELSE DeclarationsOfGroups(OwnProps(Head(permissionsData)))
         \o Declarations(Tail(permissionsData))

\* the index the collision policy gives: a declaration whose name is
\* already indexed with an identical action is skipped, any other one is
\* stored under its name
RECURSIVE PolicyIndex(_, _, _)
PolicyIndex(declarations, index, delimiter) ==
    IF declarations = <<>> THEN index
    ELSE LET d == Head(declarations)
             p == Permission(d.group, d.resource, d.raw.action, d.raw.version,
                             delimiter).value
             indexed == PropGet(index, p.name)
         IN IF indexed # Undefined /\ indexed.action = p.action
            THEN PolicyIndex(Tail(declarations), index, delimiter)
            ELSE PolicyIndex(Tail(declarations), PropPut(index, p.name, p), delimiter)

\* an init call that has built an index from a list of permission groups
BuiltPermissions ==
    /\ call'.op = "init"
    /\ result'.kind = "return"
    /\ MergeOptions(call'.options).permissions.t = "array"

\* the declarations have no property besides action and version
PlainDeclarations(declarations) ==
    \A i \in 1..Len(declarations) : declarations[i].raw.props = <<>>

\* C21: when a later declaration gives the composite name of a permission
\* already in the index and has an identical action, the earlier permission,
\* with its version, stays in the index; when the actions differ the later
\* declaration replaces the earlier one.  Stated for declarations that have
\* no property besides action and version.
CollisionKeepsIdenticalReplacesDifferent ==
    [][ ( /\ BuiltPermissions
          /\ PlainDeclarations(
                 Declarations(MergeOptions(call'.options).permissions.a)) ) =>
          data'.permissions =
              ObjOf(PolicyIndex(
                  Declarations(MergeOptions(call'.options).permissions.a),
                  <<>>, initOptions'.delimiter))
      ]_vars

----------------------------------------------------------------------------
(* The features index over access numbers *)

\* the composite name a declaration resolves to, with the delimiter ':'
ResolvedName(d) == createName(d.group, d.resource, sColon).value

FeatureDeclarations == Declarations(call.featuresData.a)

\* the greatest access among the declarations that resolve to name
MaxAccess(name) ==
    LET held == {FeatureDeclarations[i].raw.access :
                    i \in {j \in 1..Len(FeatureDeclarations) :
                              ResolvedName(FeatureDeclarations[j]) = name}}
    IN CHOOSE a \in held : \A b \in held : b <= a

\* C22: after any sequence of feature declarations the feature stored
\* under each composite name carries the maximum access among all the
\* declarations that resolve to that name, whatever their order.
StoredFeatureHasMaxAccess ==
    call.op = "createFeatures" =>
        /\ result.kind = "return"
        /\ LET props == result.value.props
           IN /\ {props[i].k : i \in 1..Len(props)} =
                     {ResolvedName(FeatureDeclarations[i]) :
                         i \in 1..Len(FeatureDeclarations)}
              /\ \A i, j \in 1..Len(props) : props[i].k = props[j].k => i = j
              /\ \A i \in 1..Len(props) :
                     /\ props[i].v.name = props[i].k
                     /\ props[i].v.access = MaxAccess(props[i].k)

\* a lower access was declared after a higher one for the same name, and
\* a higher one after a lower one
LowerDeclaredAfterHigher ==
    /\ call.op = "createFeatures"
    /\ Len(FeatureDeclarations) = 3
    /\ ResolvedName(FeatureDeclarations[1]) = ResolvedName(FeatureDeclarations[2])
    /\ ResolvedName(FeatureDeclarations[2]) = ResolvedName(FeatureDeclarations[3])
    /\ FeatureDeclarations[1].raw.access < FeatureDeclarations[2].raw.access
    /\ FeatureDeclarations[3].raw.access < FeatureDeclarations[2].raw.access
    /\ result.kind = "return"

----------------------------------------------------------------------------
(* The features lists of the roles *)

\* the composite names of the resources listed under one group
RECURSIVE EncodedNames(_, _, _)
EncodedNames(group, resources, delimiter) ==
    IF resources = <<>> THEN <<>>
    ELSE <<createName(group, Head(resources), delimiter).value>>
         \o EncodedNames(group, Tail(resources), delimiter)

RECURSIVE EncodedNamesOfRole(_, _)
EncodedNamesOfRole(groups, delimiter) ==
    IF groups = <<>> THEN <<>>
    ELSE EncodedNames(Head(groups).k, Head(groups).v.a, delimiter)
         \o EncodedNamesOfRole(Tail(groups), delimiter)

\* C23: for every role the result of createFeatures is the list, in
\* configuration order, of the composite names of every (group, resource)
\* listed under the role, each name being the encoding of group and
\* resource with the delimiter configured at init.
FeatureListsUseConfiguredDelimiter ==
    [][ ( /\ call'.op = "init"
          /\ result'.kind = "return"
          /\ call'.options.features \in FeaturesInputs
          /\ Truthy(initOptions'.delimiter) )
        => LET roles == OwnProps(call'.options.features)
           IN data'.features =
                  ObjOf([i \in 1..Len(roles) |->
                            Prop(roles[i].k,
                                 EncodedNamesOfRole(OwnProps(roles[i].v),
                                                    initOptions'.delimiter))])
      ]_vars

----------------------------------------------------------------------------
(* Feature.can *)

\* C24: Feature.can(group, resource, required) is true iff group and
\* resource equal the feature's own and the held access number is greater
\* than or equal to the required one; a feature holding Access.All matches
\* every required union of Create, Read, Update and Delete.
FeatureCanIffAtLeast ==
    call.op = "Feature.can" =>
        /\ ReturnsIff( /\ call.group = call.feature.group
                       /\ call.resource = call.feature.resource
                       /\ ~(call.feature.access < call.access) )
        /\ ( /\ call.feature.access = AccessAll
             /\ call.access \in AccessUnions
             /\ call.group = call.feature.group
             /\ call.resource = call.feature.resource ) => ReturnsTrue

\* a feature holding exactly the required access, and one holding All
\* asked for the union of all four
FeatureCanAtTheBoundary ==
    /\ call.op = "Feature.can"
    /\ call.group = call.feature.group
    /\ call.resource = call.feature.resource
    /\ call.feature.access = call.access
    /\ call.access = AccessCreate
    /\ ReturnsTrue

----------------------------------------------------------------------------
(* The lifecycle of the index *)

\* the index built from one configuration alone
TransformOf(options) ==
    LET merged == MergeOptions(options)
    IN create(merged.roles, merged.permissions, merged.features,
              merged.delimiter).value

\* C25: through every interleaving of init calls and queries the index is
\* the transform of the configuration of the most recent successful init:
\* a successful init replaces it by the transform of its own configuration
\* and nothing else, a failing init and every query leave it as it was.
IndexIsOfLastSuccessfulInit ==
    [][ IF call'.op = "init" /\ result'.kind = "return"
        THEN data' = TransformOf(call'.options)
        ELSE data' = data ]_vars

\* an init has failed after an earlier one had built an index
FailedInitOverBuiltIndex ==
    /\ call.op = "init"
    /\ result.kind = "throw"
    /\ OwnProps(data.roles) # <<>>
    /\ OwnProps(data.permissions) # <<>>

----------------------------------------------------------------------------
(* Names that a plain object inherits *)

\* C26: a name that was never registered is never dispatched as a rule: no
\* list evaluation counts it in total or in satisfied, whatever the name is
\* ('toString' and the like included), and a name not yet registered can
\* be registered: once defineACL has returned the registry has every name
\* of its rules config.
OnlyRegisteredNamesAreRules ==
    /\ ( call.op \in QuorumOps /\ call.rules.t = "array" ) =>
           LET res == ruleChecker(call.rules, call.args)
           IN /\ ~(Total < Index(res, 0).n)
              /\ ~(Satisfied < Index(res, 1).n)
    /\ call.op = "defineACL" =>
           \A n \in RegistrationNames(AllRegistrations(call.rules)) :
               RegisteredName(n)

----------------------------------------------------------------------------
(* Distinct pairs under one composite name *)

\* the declarations of the configuration of the init call
InitDeclarations == Declarations(MergeOptions(call.options).permissions.a)

\* C27: after a successful init every (group, resource) pair declared in
\* the permissions configuration is represented in the index by a
\* permission with that group and that resource: no declared pair is
\* overwritten by a different pair with the same composite name.  Stated
\* for declarations that have no property besides action and version.
EveryDeclaredPairIsIndexed ==
    ( /\ call.op = "init"
      /\ result.kind = "return"
      /\ MergeOptions(call.options).permissions.t = "array"
      /\ PlainDeclarations(InitDeclarations) )
    => \A i \in 1..Len(InitDeclarations) :
           \E j \in 1..Len(OwnProps(data.permissions)) :
               /\ OwnProps(data.permissions)[j].v.group = InitDeclarations[i].group
               /\ OwnProps(data.permissions)[j].v.resource =
                      InitDeclarations[i].resource

----------------------------------------------------------------------------
(* The delimiter of the index *)

\* C28: the delimiter hasFeature forms its lookup key with is the one the
\* current index was built with: an init call that fails leaves the
\* delimiter, like the index, as it was before the call.  Stated for a
\* failing init over an index that an earlier init has built.
FailedInitKeepsDelimiter ==
    [][ ( /\ call'.op = "init"
          /\ result'.kind = "throw"
          /\ OwnProps(data.roles) # <<>> )
        => /\ data' = data
           /\ initOptions' = initOptions ]_vars

----------------------------------------------------------------------------
(* The subject of a predicate call *)

\* a can call with one registered name whose requirement is a function
CanOfOneRule ==
    /\ call.op = "ACL.can"
    /\ call.rules.t = "string"
    /\ OrdinaryName(call.rules.rule)
    /\ RegisteredName(call.rules.rule)
    /\ rulesMap[call.rules.rule].t = "function"

\* the predicate of rule n returns truthy for the subject u
HoldsFor(n, u, args) ==
    LET o == Apply(rulesMap[n].f, u, args)
    IN o.kind = "return" /\ Truthy(o.value)

----------------------------------------------------------------------------
(* The counters and the four quorum checkers *)

IsTrue(v) == v = Bool(TRUE)

ExactlyOne(P, Q) == (P \/ Q) /\ ~(P /\ Q)

\* C30: for every list of rule names and every registry state the counters
\* satisfy 0 <= satisfied <= total <= length of the list, so that exactly
\* one of can and canNotAny is true and exactly one of canAny and canNot is
\* true.  Stated for the names that a plain object does not inherit.
CountersOrderedAndQuorumsComplementary ==
    ( /\ call.op \in QuorumOps
      /\ call.rules.t = "array"
      /\ OrdinaryNames(CalledNames) ) =>
        LET res == ruleChecker(call.rules, call.args)
            total == Index(res, 0).n
            satisfied == Index(res, 1).n
        IN /\ ~(satisfied < 0)
           /\ ~(total < satisfied)
           /\ ~(Len(call.rules.rules) < total)
           /\ ExactlyOne(IsTrue(canRuleChecker(call.rules, call.args)),
                         IsTrue(notAnyRuleChecker(call.rules, call.args)))
           /\ ExactlyOne(IsTrue(canAnyRuleChecker(call.rules, call.args)),
                         IsTrue(notRuleChecker(call.rules, call.args)))

====
